---- MODULE Spec2Model ----
(***************************************************************************)
(* A model of the Mijnlieff solver: the u16 board bit field and its score  *)
(* table (board.rs), the hand (hand.rs), the victory status (status.rs),   *)
(* the game state and its two transitions (game.rs) and the recursive     *)
(* solve (solver.rs), run as a machine with an explicit call stack.       *)
(***************************************************************************)
EXTENDS Integers, Sequences, FiniteSets, TLC

VARIABLES
    stack,   \* solve: the call stack, one frame per active call of solve
    games,   \* solve: the counter behind `games: &mut u64`
    ret,     \* solve: the value the last finished call returned, or NoStatus
    root,    \* solve: the position of the outermost call
    callee,  \* solve: the position of the call that returned `ret`
    leaves,  \* solve: calls that returned without recursing (history)
    cut,     \* solve: the last return left iterations of the loops untaken (history)
    game,    \* play: the position the solver is at on one path of its tree
    ply,     \* play: transitions taken since the starting position
    last,    \* play: the transition that produced `game`
    grid,    \* unit: the u16 handed to Board::from
    out      \* unit: the function applied and the value it returned

solveVars == <<stack, games, ret, root, callee, leaves, cut>>
playVars == <<game, ply, last>>
unitVars == <<grid, out>>
vars == <<stack, games, ret, root, callee, leaves, cut, game, ply, last, grid, out>>

(***************************************************************************)
(* u16 arithmetic                                                          *)
(***************************************************************************)
U16_MAX == 65535

SQUARES == 0 .. 15

RECURSIVE Shl1(_)
Shl1(n) == IF n = 0 THEN 1 ELSE 2 * Shl1(n - 1)

\* 2^n for the sixteen bit positions (tabulated once)
Pow2Table == [n \in 0 .. 16 |-> Shl1(n)]

Pow2(n) == Pow2Table[n]

\* a & b and a | b on one bit, then on four bits (tabulated once)
RECURSIVE And1(_, _)
And1(a, b) ==
    IF a = 0 \/ b = 0 THEN 0
    ELSE (a % 2) * (b % 2) + 2 * And1(a \div 2, b \div 2)

RECURSIVE Or1(_, _)
Or1(a, b) ==
    IF a = 0 THEN b
    ELSE IF b = 0 THEN a
    ELSE (IF a % 2 = 1 \/ b % 2 = 1 THEN 1 ELSE 0) + 2 * Or1(a \div 2, b \div 2)

And4 == [a \in 0 .. 15 |-> [b \in 0 .. 15 |-> And1(a, b)]]
Or4 == [a \in 0 .. 15 |-> [b \in 0 .. 15 |-> Or1(a, b)]]

\* a & b on unsigned integers
RECURSIVE BitAnd(_, _)
BitAnd(a, b) ==
    IF a = 0 \/ b = 0 THEN 0
    ELSE And4[a % 16][b % 16] + 16 * BitAnd(a \div 16, b \div 16)

\* a | b on unsigned integers
RECURSIVE BitOr(_, _)
BitOr(a, b) ==
    IF a = 0 THEN b
    ELSE IF b = 0 THEN a
    ELSE Or4[a % 16][b % 16] + 16 * BitOr(a \div 16, b \div 16)

\* 1 << square, as a u16
Bit(square) == Pow2(square) % (U16_MAX + 1)

\* The squares whose bit is set in a u16 (the reading of the layout comment).
SquaresOf(b) == {s \in SQUARES : (b \div Pow2(s)) % 2 = 1}

\* The u16 whose set bits are the squares of S.
RECURSIVE BoardOf(_)
BoardOf(S) ==
    IF S = {} THEN 0
    ELSE LET s == CHOOSE x \in S : TRUE IN Pow2(s) + BoardOf(S \ {s})

(***************************************************************************)
(* board.rs                                                                *)
(***************************************************************************)
\* Board::from(u16) and u16::from(Board): the newtype wraps the value as it is.
Board_from(value) == value

LINES == <<
    7, 14, 112, 224, 1792, 3584, 28672, 57344,
    273, 546, 1092, 2184, 4368, 8736, 17472, 34944,
    1057, 2114, 16912, 33824,
    292, 584, 4672, 9344 >>

\* CountLines with the loop bound one short: the last line is never tested.
RECURSIVE CountLines_OneShort(_, _)
CountLines_OneShort(board, line) ==
    IF line >= Len(LINES) THEN 0
    ELSE (IF BitAnd(board, LINES[line]) = LINES[line] THEN 1 ELSE 0)
         + CountLines_OneShort(board, line + 1)

\* The inner while loop of calculate_scores, from `line` on.
RECURSIVE CountLines(_, _)
CountLines(board, line) ==
    IF line > Len(LINES) THEN 0
    ELSE (IF BitAnd(board, LINES[line]) = LINES[line] THEN 1 ELSE 0)
         + CountLines(board, line + 1)

\* The entry calculate_scores writes at scores[board].
calculate_scores(board) == CountLines(board, 1)

\* SCORES[i], for a u16 i
SCORES(i) == calculate_scores(i)

get_score(board) == SCORES(board)

is_full(board) == board = U16_MAX

Board_is_available(board, square) == BitAnd(board, Bit(square)) = 0

\* with that returns the board as it was.
with_Keeps(board, square) == board

with(board, square) == BitOr(board, Bit(square))

merge(board_1, board_2) == BitOr(board_1, board_2)

merge_3(board_1, board_2, board_3) == BitOr(BitOr(board_1, board_2), board_3)

(***************************************************************************)
(* tile.rs: the discriminants of Tile are those hand.rs indexes its        *)
(* counters with; the mask of a tile is the complement of the squares the  *)
(* next move may use after it (adjacent squares after a Puller, squares    *)
(* not adjacent after a Pusher, the row and column after a Straight, the   *)
(* diagonals after a Diagonal).                                            *)
(***************************************************************************)
Puller   == 0
Pusher   == 1
Straight == 2
Diagonal == 3

TILES == {Puller, Pusher, Straight, Diagonal}

Row(s) == s \div 4
Col(s) == s % 4
Abs(x) == IF x < 0 THEN -x ELSE x

Adjacent(s, q) == s # q /\ Abs(Row(s) - Row(q)) <= 1 /\ Abs(Col(s) - Col(q)) <= 1
SameLine(s, q) == s # q /\ (Row(s) = Row(q) \/ Col(s) = Col(q))
SameDiagonal(s, q) == s # q /\ Abs(Row(s) - Row(q)) = Abs(Col(s) - Col(q))

\* The squares the opponent may answer in after `tile` was played on `square`.
Allowed(tile, square) ==
    {q \in SQUARES :
        CASE tile = Puller   -> Adjacent(square, q)
          [] tile = Pusher   -> q # square /\ ~Adjacent(square, q)
          [] tile = Straight -> SameLine(square, q)
          [] tile = Diagonal -> SameDiagonal(square, q)}

\* The mask of every (tile, square), tabulated once.
UNAVAILABLE ==
    [tile \in TILES |-> [square \in SQUARES |-> BoardOf(SQUARES \ Allowed(tile, square))]]

get_unavailable(tile, square) == UNAVAILABLE[tile][square]

(***************************************************************************)
(* status.rs                                                               *)
(***************************************************************************)
Win  == "Win"
Draw == "Draw"
Loss == "Loss"
NoStatus == "none"

Status == {Win, Draw, Loss}

\* not that returns its argument unchanged.
not_Identity(self) == self

\* not that turns a draw into a loss.
not_DrawLoses(self) ==
    CASE self = Win  -> Loss
      [] self = Draw -> Loss
      [] self = Loss -> Win

not(self) ==
    CASE self = Win  -> Loss
      [] self = Draw -> self
      [] self = Loss -> Win

(***************************************************************************)
(* hand.rs: four u8 counters, indexed by the tile's discriminant           *)
(***************************************************************************)
U8_MOD == 256

Hand_default == <<2, 2, 2, 2>>

is_empty(hand) == ((hand[1] + hand[2] + hand[3] + hand[4]) % U8_MOD) = 0

Hand_has(hand, tile) == hand[tile + 1] > 0

\* without that removes nothing.
without_Keeps(hand, tile) == hand

\* hand.0[tile] -= 1 on a u8 (wrapping, as in a release build)
without(hand, tile) == [hand EXCEPT ![tile + 1] = (@ - 1) % U8_MOD]

(***************************************************************************)
(* game.rs                                                                 *)
(***************************************************************************)
INITIAL_UNAVAILABLE == 65532

\* Game::default() with the corner alone left open.
Game_default_CornerOnly ==
    [ board          |-> 0,
      hand           |-> Hand_default,
      opponent_board |-> 0,
      opponent_hand  |-> Hand_default,
      unavailable    |-> INITIAL_UNAVAILABLE + 2 ]

Game_default ==
    [ board          |-> 0,
      hand           |-> Hand_default,
      opponent_board |-> 0,
      opponent_hand  |-> Hand_default,
      unavailable    |-> INITIAL_UNAVAILABLE ]

\* is_over that looks at the hand of the opponent.
is_over_Opponent(g) == is_empty(g.opponent_hand)

is_over(g) == is_empty(g.hand)

\* get_status with >= for >: an equal score counts as a win.
get_status_Ge(g) ==
    LET score == get_score(g.board)
        opponent_score == get_score(g.opponent_board)
    IN  IF score >= opponent_score THEN Win
        ELSE IF score < opponent_score THEN Loss
        ELSE Draw

get_status(g) ==
    LET score == get_score(g.board)
        opponent_score == get_score(g.opponent_board)
    IN  IF score > opponent_score THEN Win
        ELSE IF score < opponent_score THEN Loss
        ELSE Draw

player_must_pass(g) == is_full(g.unavailable)

\* is_available that reports every square as available.
is_available_Always(g, square) == TRUE

is_available(g, square) == Board_is_available(g.unavailable, square)

\* has that reports every tile as held.
has_Always(g, tile) == TRUE

has(g, tile) == Hand_has(g.hand, tile)

\* with_pass that leaves the two grids where they were.
with_pass_NoSwap(g) ==
    [ board          |-> g.board,
      hand           |-> g.opponent_hand,
      opponent_board |-> g.opponent_board,
      opponent_hand  |-> g.hand,
      unavailable    |-> merge(g.board, g.opponent_board) ]

\* with_pass that hands the forbidden grid over as it was.
with_pass_SameForbidden(g) ==
    [ board          |-> g.opponent_board,
      hand           |-> g.opponent_hand,
      opponent_board |-> g.board,
      opponent_hand  |-> g.hand,
      unavailable    |-> g.unavailable ]

\* with_pass that keeps the parent's restriction in the new forbidden grid.
with_pass_Keeps(g) ==
    [ board          |-> g.opponent_board,
      hand           |-> g.opponent_hand,
      opponent_board |-> g.board,
      opponent_hand  |-> g.hand,
      unavailable    |-> merge_3(g.board, g.opponent_board, g.unavailable) ]

with_pass(g) ==
    [ board          |-> g.opponent_board,
      hand           |-> g.opponent_hand,
      opponent_board |-> g.board,
      opponent_hand  |-> g.hand,
      unavailable    |-> merge(g.board, g.opponent_board) ]

\* with_move that removes the tile from the hand of the player to move next.
with_move_WrongHand(g, tile, square) ==
    [ board          |-> g.opponent_board,
      hand           |-> without(g.opponent_hand, tile),
      opponent_board |-> with(g.board, square),
      opponent_hand  |-> g.hand,
      unavailable    |-> merge_3(g.board, g.opponent_board,
                                 get_unavailable(tile, square)) ]

\* with_move that hands the mover's hand over as it was.
with_move_KeepsHand(g, tile, square) ==
    [ board          |-> g.opponent_board,
      hand           |-> g.opponent_hand,
      opponent_board |-> with(g.board, square),
      opponent_hand  |-> g.hand,
      unavailable    |-> merge_3(g.board, g.opponent_board,
                                 get_unavailable(tile, square)) ]

\* with_move that leaves the opponent's grid out of the new forbidden grid.
with_move_NoOpponent(g, tile, square) ==
    [ board          |-> g.opponent_board,
      hand           |-> g.opponent_hand,
      opponent_board |-> with(g.board, square),
      opponent_hand  |-> without(g.hand, tile),
      unavailable    |-> merge(g.board, get_unavailable(tile, square)) ]

with_move(g, tile, square) ==
    [ board          |-> g.opponent_board,
      hand           |-> g.opponent_hand,
      opponent_board |-> with(g.board, square),
      opponent_hand  |-> without(g.hand, tile),
      unavailable    |-> merge_3(g.board, g.opponent_board,
                                 get_unavailable(tile, square)) ]

(***************************************************************************)
(* Positions the solver reaches.  A line is a game played from             *)
(* Game::default(): each entry is a move <<tile, square>> or a pass <<>>.  *)
(***************************************************************************)
PASS == <<>>

Line1 == << <<1, 1>>, <<2, 13>>, <<0, 5>>, <<0, 9>>, <<1, 10>>, <<3, 2>>,
            <<3, 8>>, PASS, <<2, 0>>, <<2, 4>>, <<0, 6>>, <<1, 11>>, <<2, 3>>,
            <<0, 7>>, PASS, <<3, 12>>, PASS, <<1, 15>>, PASS >>

Line2 == << <<2, 1>>, <<3, 3>>, <<1, 6>>, <<1, 15>>, <<0, 12>>, <<0, 13>>,
            <<1, 8>>, <<1, 0>>, <<2, 7>>, <<2, 4>>, <<3, 5>>, <<3, 10>>, PASS,
            <<0, 2>>, PASS, <<2, 14>>, PASS >>

Line3 == << <<3, 1>>, <<0, 4>>, <<1, 9>>, <<0, 11>>, <<1, 7>>, <<3, 15>>,
            <<3, 5>>, <<1, 0>>, <<0, 13>>, <<2, 12>>, <<0, 8>>, PASS, <<2, 6>>,
            <<3, 14>>, PASS, <<2, 2>>, <<2, 3>>, PASS >>

Lines == {Line1, Line2, Line3}

\* The transition the solver takes for one entry of a line (solver.rs 46-57).
Step(g, m) == IF m = PASS THEN with_pass(g) ELSE with_move(g, m[1], m[2])

\* Whether the solver takes that transition from g: solve recurses only from a
\* position that is not over, passes only when it must, and moves only to an
\* available square with a tile the mover has.
CanStep(g, m) ==
    /\ ~is_over(g)
    /\ IF m = PASS THEN player_must_pass(g)
       ELSE /\ ~player_must_pass(g)
            /\ is_available(g, m[2])
            /\ has(g, m[1])

RECURSIVE Replay(_, _)
Replay(g, line) ==
    IF line = <<>> THEN g ELSE Replay(Step(g, Head(line)), Tail(line))

RECURSIVE Legal(_, _)
Legal(g, line) ==
    \/ line = <<>>
    \/ CanStep(g, Head(line)) /\ Legal(Step(g, Head(line)), Tail(line))

\* The positions on a line the solver can follow from Game::default().
PositionsOn(line) ==
    {Replay(Game_default, SubSeq(line, 1, k)) :
        k \in {n \in 0 .. Len(line) : Legal(Game_default, SubSeq(line, 1, n))}}

TilesLeft(g) ==
    g.hand[1] + g.hand[2] + g.hand[3] + g.hand[4]
    + g.opponent_hand[1] + g.opponent_hand[2] + g.opponent_hand[3] + g.opponent_hand[4]

\* How far the play is followed from a starting position, and from how many
\* tiles left on it is followed to the end.
MaxPly == 2
MaxTiles == 4

\* Late positions of the lines: the tree below them is followed whole.
Endgames == {g \in UNION {PositionsOn(l) : l \in Lines} : TilesLeft(g) <= MaxTiles}

\* Where the play starts: anywhere on the first line, or in an endgame.
PlayRoots == PositionsOn(Line1) \cup Endgames

NoMove == [op |-> "none", tile |-> 0, square |-> 0, from |-> Game_default]

NoOut == [op |-> "none", val |-> 0]

IdleSolve ==
    /\ stack = <<>> /\ games = 0 /\ ret = NoStatus
    /\ root = Game_default /\ callee = Game_default /\ leaves = 0 /\ cut = FALSE
IdlePlay == game = Game_default /\ ply = 0 /\ last = NoMove
IdleUnit == grid = 0 /\ out = NoOut

InitPlay ==
    /\ game \in PlayRoots
    /\ ply = 0
    /\ last = NoMove
    /\ IdleSolve /\ IdleUnit

Followed == ply < MaxPly \/ TilesLeft(game) <= MaxTiles

\* solver.rs 53-57: one iteration of the two loops that recurses.
PlayMove(tile, square) ==
    /\ Followed
    /\ ~is_over(game)
    /\ ~player_must_pass(game)
    /\ is_available(game, square)
    /\ has(game, tile)
    /\ game' = with_move(game, tile, square)
    /\ ply' = ply + 1
    /\ last' = [op |-> "move", tile |-> tile, square |-> square, from |-> game]
    /\ UNCHANGED <<solveVars, unitVars>>

\* solver.rs 46-47: the recursion on with_pass.
PlayPass ==
    /\ Followed
    /\ ~is_over(game)
    /\ player_must_pass(game)
    /\ game' = with_pass(game)
    /\ ply' = ply + 1
    /\ last' = [op |-> "pass", tile |-> 0, square |-> 0, from |-> game]
    /\ UNCHANGED <<solveVars, unitVars>>

NextPlay ==
    \/ \E tile \in TILES, square \in SQUARES : PlayMove(tile, square)
    \/ PlayPass

SpecPlay == InitPlay /\ [][NextPlay]_vars

(***************************************************************************)
(* solver.rs                                                               *)
(***************************************************************************)
SQUARES_PREFERENCE == <<5, 6, 9, 10, 3, 15, 12, 0, 1, 2, 4, 7, 8, 11, 13, 14>>

TILES_PREFERENCE == <<Pusher, Straight, Diagonal, Puller>>

\* MatchChild that also returns at once on a drawn child.
MatchChild_DrawReturns(status, child) ==
    CASE child = Win  -> [status |-> status, return |-> FALSE]
      [] child = Draw -> [status |-> Draw, return |-> TRUE]
      [] child = Loss -> [status |-> Win, return |-> TRUE]

\* MatchChild that lets a later won child overwrite a draw found before.
MatchChild_WinResets(status, child) ==
    CASE child = Win  -> [status |-> Loss, return |-> FALSE]
      [] child = Draw -> [status |-> Draw, return |-> FALSE]
      [] child = Loss -> [status |-> Win, return |-> TRUE]

\* The match on a child's result (lines 57-62): the new running status, and
\* whether solve returns it at once.
MatchChild(status, child) ==
    CASE child = Win  -> [status |-> status, return |-> FALSE]
      [] child = Draw -> [status |-> Draw, return |-> FALSE]
      [] child = Loss -> [status |-> Win, return |-> TRUE]

\* The two for loops and their guards (lines 53-56): the first iteration at or
\* after (squares[i], tiles[j]) that reaches the recursive call, <<0, 0>> if
\* the loops end first.
RECURSIVE NextChoice(_, _, _, _, _)
NextChoice(g, squares, tiles, i, j) ==
    IF i > Len(squares) THEN <<0, 0>>
    ELSE IF ~is_available(g, squares[i]) \/ j > Len(tiles)
         THEN NextChoice(g, squares, tiles, i + 1, 1)
    ELSE IF has(g, tiles[j]) THEN <<i, j>>
    ELSE NextChoice(g, squares, tiles, i, j + 1)

\* solve as a function of the position, with the two orders as parameters:
\* SolveLoop is the loops from iteration (i, j) on with the running status.
RECURSIVE SolveWith(_, _, _)
RECURSIVE SolveLoop(_, _, _, _, _, _)
SolveLoop(g, squares, tiles, i, j, status) ==
    LET c == NextChoice(g, squares, tiles, i, j) IN
    IF c = <<0, 0>> THEN status
    ELSE LET child == SolveWith(with_move(g, tiles[c[2]], squares[c[1]]), squares, tiles)
             m == MatchChild(status, child)
         IN  IF m.return THEN m.status
             ELSE SolveLoop(g, squares, tiles, c[1], c[2] + 1, m.status)

SolveWith(g, squares, tiles) ==
    IF is_over(g) THEN get_status(g)
    ELSE IF player_must_pass(g) THEN not(SolveWith(with_pass(g), squares, tiles))
    ELSE SolveLoop(g, squares, tiles, 1, 1, Loss)

solve(g) == SolveWith(g, SQUARES_PREFERENCE, TILES_PREFERENCE)

(***************************************************************************)
(* solve as a machine: one frame per active call.  pc is "enter" before    *)
(* the first test, "pass" while the call on with_pass runs, "loop" while   *)
(* the call on with_move for (square, tile) runs.                          *)
(***************************************************************************)
Frame(g) ==
    [ game |-> g, pc |-> "enter", square |-> 0, tile |-> 0,
      status |-> NoStatus, recursed |-> FALSE ]

Top == stack[Len(stack)]

Pop == SubSeq(stack, 1, Len(stack) - 1)

\* The call on top returns `value` to its caller; `early` tells whether it
\* left iterations that would have recursed.
Return(value, early) ==
    /\ stack' = Pop
    /\ ret' = value
    /\ callee' = Top.game
    /\ leaves' = leaves + (IF Top.recursed THEN 0 ELSE 1)
    /\ cut' = early

\* The call on top recurses on `g` from iteration (i, j), running status st.
Recurse(pc, i, j, st, g) ==
    /\ stack' = Append(
           [stack EXCEPT ![Len(stack)] =
               [@ EXCEPT !.pc = pc, !.square = i, !.tile = j,
                         !.status = st, !.recursed = TRUE]],
           Frame(g))
    /\ ret' = NoStatus
    /\ cut' = FALSE
    /\ UNCHANGED <<callee, leaves>>

\* lines 41-44
SolveOver ==
    /\ stack # <<>> /\ Top.pc = "enter"
    /\ is_over(Top.game)
    /\ games' = games + 1
    /\ Return(get_status(Top.game), FALSE)
    /\ UNCHANGED <<root, playVars, unitVars>>

\* SolvePass that recurses on the position itself.
SolvePass_SameGame ==
    /\ stack # <<>> /\ Top.pc = "enter"
    /\ ~is_over(Top.game)
    /\ player_must_pass(Top.game)
    /\ Recurse("pass", 0, 0, NoStatus, Top.game)
    /\ UNCHANGED <<games, root, playVars, unitVars>>

\* SolvePass that counts the pass node as a game.
SolvePass_Counts ==
    /\ stack # <<>> /\ Top.pc = "enter"
    /\ ~is_over(Top.game)
    /\ player_must_pass(Top.game)
    /\ Recurse("pass", 0, 0, NoStatus, with_pass(Top.game))
    /\ games' = games + 1
    /\ UNCHANGED <<root, playVars, unitVars>>

\* lines 46-47: the call
SolvePass ==
    /\ stack # <<>> /\ Top.pc = "enter"
    /\ ~is_over(Top.game)
    /\ player_must_pass(Top.game)
    /\ Recurse("pass", 0, 0, NoStatus, with_pass(Top.game))
    /\ UNCHANGED <<games, root, playVars, unitVars>>

\* line 47: the negated result is returned
SolvePassed ==
    /\ stack # <<>> /\ Top.pc = "pass"
    /\ ret # NoStatus
    /\ Return(not(ret), FALSE)
    /\ UNCHANGED <<games, root, playVars, unitVars>>

\* SolveFirst that counts the position it branches from as a game.
SolveFirst_Counts ==
    /\ stack # <<>> /\ Top.pc = "enter"
    /\ ~is_over(Top.game)
    /\ ~player_must_pass(Top.game)
    /\ LET c == NextChoice(Top.game, SQUARES_PREFERENCE, TILES_PREFERENCE, 1, 1) IN
       IF c = <<0, 0>> THEN Return(Loss, FALSE)
       ELSE Recurse("loop", c[1], c[2], Loss,
                    with_move(Top.game, TILES_PREFERENCE[c[2]],
                              SQUARES_PREFERENCE[c[1]]))
    /\ games' = games + 1
    /\ UNCHANGED <<root, playVars, unitVars>>

\* lines 51-57: status = Loss and the loops up to the first recursive call
\* (line 68 at once if the loops reach none)
SolveFirst ==
    /\ stack # <<>> /\ Top.pc = "enter"
    /\ ~is_over(Top.game)
    /\ ~player_must_pass(Top.game)
    /\ LET c == NextChoice(Top.game, SQUARES_PREFERENCE, TILES_PREFERENCE, 1, 1) IN
       IF c = <<0, 0>> THEN Return(Loss, FALSE)
       ELSE Recurse("loop", c[1], c[2], Loss,
                    with_move(Top.game, TILES_PREFERENCE[c[2]],
                              SQUARES_PREFERENCE[c[1]]))
    /\ UNCHANGED <<games, root, playVars, unitVars>>

\* line 61: the child lost, so this call returns Win
SolveWin ==
    /\ stack # <<>> /\ Top.pc = "loop"
    /\ ret # NoStatus
    /\ MatchChild(Top.status, ret).return
    /\ Return(MatchChild(Top.status, ret).status,
              NextChoice(Top.game, SQUARES_PREFERENCE, TILES_PREFERENCE,
                         Top.square, Top.tile + 1) # <<0, 0>>)
    /\ UNCHANGED <<games, root, playVars, unitVars>>

\* lines 58-59, then the loops up to the next recursive call
SolveNext ==
    /\ stack # <<>> /\ Top.pc = "loop"
    /\ ret # NoStatus
    /\ LET m == MatchChild(Top.status, ret)
           c == NextChoice(Top.game, SQUARES_PREFERENCE, TILES_PREFERENCE,
                           Top.square, Top.tile + 1)
       IN  /\ ~m.return
           /\ c # <<0, 0>>
           /\ Recurse("loop", c[1], c[2], m.status,
                      with_move(Top.game, TILES_PREFERENCE[c[2]],
                                SQUARES_PREFERENCE[c[1]]))
    /\ UNCHANGED <<games, root, playVars, unitVars>>

\* lines 58-59, then the loops end: line 68
SolveDone ==
    /\ stack # <<>> /\ Top.pc = "loop"
    /\ ret # NoStatus
    /\ LET m == MatchChild(Top.status, ret)
           c == NextChoice(Top.game, SQUARES_PREFERENCE, TILES_PREFERENCE,
                           Top.square, Top.tile + 1)
       IN  /\ ~m.return
           /\ c = <<0, 0>>
           /\ Return(m.status, FALSE)
    /\ UNCHANGED <<games, root, playVars, unitVars>>

\* create_game of the solver's tests: twelve unchecked moves and two passes.
create_game(tile_1, tile_2, tile_3) ==
    Replay(Game_default,
           << <<tile_1, 0>>, <<tile_1, 1>>, <<tile_1, 2>>, <<tile_1, 3>>,
              <<tile_2, 7>>, <<tile_2, 6>>, <<tile_2, 5>>, <<tile_2, 4>>,
              <<tile_3, 8>>, <<tile_3, 9>>, <<tile_3, 12>>, <<tile_3, 13>>,
              PASS, PASS >>)

Fixtures ==
    {create_game(t[1], t[2], t[3]) :
        t \in {x \in TILES \X TILES \X TILES : x[1] # x[2] /\ x[1] # x[3] /\ x[2] # x[3]}}

\* The positions solve is started on: the fixtures of its tests, and the
\* positions of the lines from which the whole tree is followed.
SolveRoots == Fixtures \cup Endgames

Init ==
    /\ root \in SolveRoots
    /\ stack = <<Frame(root)>>
    /\ games = 0
    /\ ret = NoStatus
    /\ callee = root
    /\ leaves = 0
    /\ cut = FALSE
    /\ IdlePlay /\ IdleUnit

Next ==
    \/ SolveOver
    \/ SolvePass
    \/ SolvePassed
    \/ SolveFirst
    \/ SolveWin
    \/ SolveNext
    \/ SolveDone

Spec == Init /\ [][Next]_vars

\* main.rs 20-21: solve on Game::default(), followed until it has counted
\* MaxGames games.
MaxGames == 40

InitDeep ==
    /\ root = Game_default
    /\ stack = <<Frame(root)>>
    /\ games = 0
    /\ ret = NoStatus
    /\ callee = root
    /\ leaves = 0
    /\ cut = FALSE
    /\ IdlePlay /\ IdleUnit

NextDeep ==
    \/ games < MaxGames /\ SolveOver
    \/ games < MaxGames /\ SolvePass
    \/ games < MaxGames /\ SolvePassed
    \/ games < MaxGames /\ SolveFirst
    \/ games < MaxGames /\ SolveWin
    \/ games < MaxGames /\ SolveNext
    \/ games < MaxGames /\ SolveDone

SpecDeep == InitDeep /\ [][NextDeep]_vars

(***************************************************************************)
(* The functions on their own: get_score on every u16, and get_status and  *)
(* with_pass on positions built field by field, as the tests build them.   *)
(***************************************************************************)
InitScore ==
    /\ grid \in 0 .. U16_MAX
    /\ out = NoOut
    /\ IdleSolve /\ IdlePlay

\* board.rs 122-124
UnitScore ==
    /\ out = NoOut
    /\ out' = [op |-> "get_score", val |-> get_score(Board_from(grid))]
    /\ UNCHANGED <<grid, solveVars, playVars>>

NextScore == UnitScore

SpecScore == InitScore /\ [][NextScore]_vars

\* Boards of the tests of board.rs, game.rs and solver.rs, the empty and the
\* full board.
UnitBoards == {0, 7, 15, 61440, 4517, 8794, 20082, 27030, U16_MAX}

UnitHands == {Hand_default, without(Hand_default, Puller), <<0, 2, 0, 0>>, <<0, 0, 0, 0>>}

UnitGames ==
    {[ board |-> b, hand |-> h, opponent_board |-> ob, opponent_hand |-> oh,
       unavailable |-> u ] :
        b \in UnitBoards, ob \in UnitBoards, h \in UnitHands, oh \in UnitHands,
        u \in {INITIAL_UNAVAILABLE, U16_MAX}}
    \cup
    {[ board |-> b, hand |-> h, opponent_board |-> ob, opponent_hand |-> oh,
       unavailable |-> merge(b, ob) ] :
        b \in UnitBoards, ob \in UnitBoards, h \in UnitHands, oh \in UnitHands}

InitUnit ==
    /\ game \in UnitGames
    /\ ply = 0
    /\ last = NoMove
    /\ IdleSolve /\ IdleUnit

\* game.rs 59-70
UnitStatus ==
    /\ out = NoOut
    /\ out' = [op |-> "get_status", val |-> get_status(game)]
    /\ UNCHANGED <<grid, solveVars, playVars>>

\* game.rs 90-98
UnitPass ==
    /\ out = NoOut
    /\ out' = [op |-> "with_pass", val |-> with_pass(game)]
    /\ UNCHANGED <<grid, solveVars, playVars>>

\* status.rs 16-22: !status, and ! applied to the result again
UnitNot(status) ==
    /\ out = NoOut
    /\ out' = [op |-> "not", val |-> <<status, not(status), not(not(status))>>]
    /\ UNCHANGED <<grid, solveVars, playVars>>

\* game.rs 59-70 on the position and on the position after with_pass
\* (game.rs 90-98), as solver.rs 41-47 applies them at a pass before the end
UnitSwapStatus ==
    /\ out = NoOut
    /\ out' = [op |-> "swap_status",
               val |-> <<get_status(game), get_status(with_pass(game))>>]
    /\ UNCHANGED <<grid, solveVars, playVars>>

NextUnit ==
    \/ UnitStatus
    \/ UnitPass
    \/ \E status \in Status : UnitNot(status)
    \/ UnitSwapStatus

SpecUnit == InitUnit /\ [][NextUnit]_vars

(***************************************************************************)
(* Properties                                                              *)
(***************************************************************************)

\* The 24 windows of three squares in a row of the 4x4 grid, from the
\* geometry: 8 horizontal, 8 vertical, 4 down-right and 4 down-left.
Windows ==
    {{4 * r + c, 4 * r + c + 1, 4 * r + c + 2} : r \in 0 .. 3, c \in 0 .. 1}
    \cup {{4 * r + c, 4 * (r + 1) + c, 4 * (r + 2) + c} : r \in 0 .. 1, c \in 0 .. 3}
    \cup {{4 * r + c, 4 * (r + 1) + c + 1, 4 * (r + 2) + c + 2} : r \in 0 .. 1, c \in 0 .. 1}
    \cup {{4 * r + c, 4 * (r + 1) + c - 1, 4 * (r + 2) + c - 2} : r \in 0 .. 1, c \in 2 .. 3}

WindowsIn(b) == Cardinality({w \in Windows : w \subseteq SquaresOf(b)})

\* The four rows, the four columns and the two main diagonals.
FullLines == {15, 240, 3840, 61440, 4369, 8738, 17476, 34952, 33825, 4680}

\* C3: for every u16 g, get_score(g) is the number of the 24 three-square
\* windows of the grid whose squares are all set in g; a full row, column or
\* main diagonal alone scores 2.
C3_ScoreCountsWindows ==
    out.op = "get_score" =>
        /\ Cardinality(Windows) = 24
        /\ out.val = WindowsIn(grid)
        /\ (grid \in FullLines => out.val = 2)

C3_Witness == out.op = "get_score" /\ grid = 33825 /\ out.val = 2

\* C5: with_pass swaps the two grids and the two hands, changes no bit and
\* no counter, and the new forbidden grid is exactly the union of the two
\* grids, whatever the forbidden grid was.
C5_PassFrame ==
    out.op = "with_pass" =>
        /\ out.val.board = game.opponent_board
        /\ out.val.hand = game.opponent_hand
        /\ out.val.opponent_board = game.board
        /\ out.val.opponent_hand = game.hand
        /\ SquaresOf(out.val.unavailable)
             = SquaresOf(game.board) \cup SquaresOf(game.opponent_board)

C5_Witness ==
    /\ out.op = "with_pass"
    /\ game.unavailable = U16_MAX
    /\ game.board # game.opponent_board
    /\ game.hand # game.opponent_hand
    /\ out.val.unavailable # U16_MAX

\* C10: get_status is Win iff the own grid scores more than the opponent's,
\* Loss iff it scores less, Draw iff the scores are equal: a function of the
\* two grids alone.
C10_StatusComparesScores ==
    out.op = "get_status" =>
        LET own == WindowsIn(game.board)
            opp == WindowsIn(game.opponent_board)
        IN  /\ out.val = Win <=> own > opp
            /\ out.val = Loss <=> own < opp
            /\ out.val = Draw <=> own = opp

C10_Witness ==
    /\ out.op = "get_status"
    /\ out.val = Draw
    /\ WindowsIn(game.board) > 0
    /\ game.board # game.opponent_board
    /\ game.hand # game.opponent_hand

\* The value of a position by exhaustive minimax: every successor is
\* evaluated, none is skipped.
RECURSIVE Minimax(_)
Minimax(g) ==
    IF is_over(g) THEN get_status(g)
    ELSE IF player_must_pass(g) THEN not(Minimax(with_pass(g)))
    ELSE LET moves == {m \in TILES \X SQUARES : has(g, m[1]) /\ is_available(g, m[2])}
             children == {Minimax(with_move(g, m[1], m[2])) : m \in moves}
         IN  IF Loss \in children THEN Win
             ELSE IF Draw \in children THEN Draw
             ELSE Loss

\* C1: whatever position a call of solve is made on, the value it returns is
\* the exhaustive minimax value of that position; returning Win at the first
\* lost child changes nothing.
C1_SolveIsMinimax == ret # NoStatus => ret = Minimax(callee)

C1_Witness ==
    /\ stack = <<>>
    /\ ret = Win
    /\ cut
    /\ callee = root

\* C6: a step changes the games counter only when the call on top is on a
\* position that is over, and then by exactly one; passes and branching
\* nodes leave it alone; and the counter is the number of leaves of the tree
\* explored so far (calls that returned without recursing).
C6_CounterCountsLeaves ==
    /\ [][games' = games + (IF stack # <<>> /\ Top.pc = "enter" /\ is_over(Top.game)
                            THEN 1 ELSE 0)]_vars
    /\ [](games = leaves)

C6_Witness ==
    /\ stack = <<>>
    /\ ret # NoStatus
    /\ games > 1
    /\ games = leaves
    /\ ~is_over(root)

\* The orders the squares and the tiles are tried in: every order of the four
\* tiles, and the preference order of the squares with others beside it.
Reverse(seq) == [i \in 1 .. Len(seq) |-> seq[Len(seq) + 1 - i]]

TileOrders == {p \in [1 .. 4 -> TILES] : \A i, j \in 1 .. 4 : i # j => p[i] # p[j]}

RowMajor == [i \in 1 .. 16 |-> i - 1]

SquareOrders ==
    {SQUARES_PREFERENCE, Reverse(SQUARES_PREFERENCE), RowMajor, Reverse(RowMajor)}

\* C7: the value solve returns for a position is the value it returns with
\* the squares and the tiles tried in any other order (for the outermost call
\* every order of the tiles is tried, for the calls below it the preference
\* order and its reverse).
C7_OrderIndependent ==
    ret # NoStatus =>
        \A squares \in SquareOrders :
            \A tiles \in (IF stack = <<>> THEN TileOrders
                           ELSE {TILES_PREFERENCE, Reverse(TILES_PREFERENCE)}) :
                SolveWith(callee, squares, tiles) = ret

C7_Witness ==
    /\ stack = <<>>
    /\ ret = Draw
    /\ ~is_over(root)
    /\ \E tiles \in TileOrders :
           /\ tiles # TILES_PREFERENCE
           /\ SolveWith(root, RowMajor, tiles) = ret

\* C9: from the fixture of the solver's test (own grid {0,2,5,7,8,12},
\* opponent grid {1,3,4,6,9,13}, the twelve occupied squares forbidden, two
\* tiles of one type in each hand), solve returns Win with Pushers, Draw with
\* Straights and Loss with Diagonals.
FixtureOf(tile) ==
    [ board          |-> BoardOf({0, 2, 5, 7, 8, 12}),
      hand           |-> [i \in 1 .. 4 |-> IF i = tile + 1 THEN 2 ELSE 0],
      opponent_board |-> BoardOf({1, 3, 4, 6, 9, 13}),
      opponent_hand  |-> [i \in 1 .. 4 |-> IF i = tile + 1 THEN 2 ELSE 0],
      unavailable    |-> BoardOf(SQUARES \ {10, 11, 14, 15}) ]

C9_FixtureResults ==
    /\ create_game(Puller, Straight, Diagonal) = FixtureOf(Pusher)
    /\ create_game(Puller, Pusher, Diagonal) = FixtureOf(Straight)
    /\ create_game(Puller, Pusher, Straight) = FixtureOf(Diagonal)
    /\ (stack = <<>> /\ ret # NoStatus) =>
          /\ root = FixtureOf(Pusher) => ret = Win
          /\ root = FixtureOf(Straight) => ret = Draw
          /\ root = FixtureOf(Diagonal) => ret = Loss

C9_Witness ==
    /\ stack = <<>>
    /\ root = FixtureOf(Diagonal)
    /\ ret = Loss
    /\ games > 1

\* A measure of what is left of a game: two per tile in a hand, one more
\* where the mover must pass.
Rank(g) ==
    2 * TilesLeft(g) + (IF ~is_over(g) /\ player_must_pass(g) THEN 1 ELSE 0)

\* C2: every transition the solver follows lowers the measure, which is
\* never negative, so no sequence of moves and passes goes on for ever; and a
\* position that is not over always has a transition, so a sequence ends only
\* in a position that is over.
C2_PlayEnds ==
    /\ [][Rank(game') < Rank(game)]_vars
    /\ [](Rank(game) >= 0)
    /\ [](~is_over(game) =>
            \/ player_must_pass(game)
            \/ \E tile \in TILES, square \in SQUARES :
                   is_available(game, square) /\ has(game, tile))

C2_Witness ==
    /\ last.op = "pass"
    /\ is_over(game)
    /\ ply > 2
    /\ Rank(game) < Rank(last.from)

\* C4: with_move hands the opponent's grid and hand over as the successor's
\* own, adds exactly the played square to the mover's grid, lowers exactly the
\* counter of the played tile by one, and forbids nothing but occupied squares
\* and the squares of the mask of (tile, square).
C4_MoveFrame ==
    last.op = "move" =>
        LET p == last.from IN
        /\ game.board = p.opponent_board
        /\ game.hand = p.opponent_hand
        /\ SquaresOf(game.opponent_board) = SquaresOf(p.board) \cup {last.square}
        /\ game.opponent_hand[last.tile + 1] = p.hand[last.tile + 1] - 1
        /\ \A t \in TILES \ {last.tile} : game.opponent_hand[t + 1] = p.hand[t + 1]
        /\ SquaresOf(game.unavailable) \subseteq
               SquaresOf(p.board) \cup SquaresOf(p.opponent_board)
               \cup SquaresOf(get_unavailable(last.tile, last.square))

C4_Witness ==
    /\ last.op = "move"
    /\ last.tile = Diagonal
    /\ last.from.board # 0
    /\ last.from.hand # last.from.opponent_hand
    /\ ~player_must_pass(game)

\* The eight rotations and reflections of the 4x4 board, on squares.
RECURSIVE Rotate(_, _)
Rotate(s, n) == IF n = 0 THEN s ELSE Rotate(4 * Col(s) + (3 - Row(s)), n - 1)

Mirror(s) == 4 * Row(s) + (3 - Col(s))

Images(S) ==
    {Rotate(s, n) : s \in S, n \in 0 .. 3} \cup {Mirror(Rotate(s, n)) : s \in S, n \in 0 .. 3}

Open(g) == {s \in SQUARES : is_available(g, s)}

Centre == {5, 6, 9, 10}

\* C8 as stated: Game::default() leaves squares 0 and 1 open and each of the
\* other fourteen squares is the image of one of them under a rotation or
\* reflection of the board.
C8_AllOthersAreImages ==
    game = Game_default =>
        /\ Open(game) = {0, 1}
        /\ SQUARES \ {0, 1} \subseteq Images(Open(game))

\* C8, amended: Game::default() leaves squares 0 and 1 open, the solver's
\* first move is on one of them, each of the other ten squares of the border
\* is the image of one of them under a rotation or reflection of the board,
\* and the four central squares are the image of neither.
C8_BorderSquaresAreImages ==
    /\ game = Game_default =>
          /\ Open(game) = {0, 1}
          /\ (SQUARES \ Centre) \ {0, 1} \subseteq Images(Open(game))
          /\ Centre \cap Images(Open(game)) = {}
    /\ (last.op = "move" /\ last.from = Game_default) => last.square \in {0, 1}

C8_Witness ==
    /\ last.op = "move"
    /\ last.from = Game_default
    /\ last.square = 1
    /\ ply = 1

\* C11: !Win is Loss, !Loss is Win, !Draw is Draw, and negating twice gives
\* the outcome back: !(!s) = s for each of the three outcomes.
C11_NotIsInvolution ==
    out.op = "not" =>
        LET s == out.val[1] IN
        /\ s = Win => out.val[2] = Loss
        /\ s = Loss => out.val[2] = Win
        /\ s = Draw => out.val[2] = Draw
        /\ out.val[3] = s

C11_Witness ==
    /\ out.op = "not"
    /\ out.val = <<Win, Loss, Win>>

\* Grid a has every bit of grid b.
Covers(a, b) == BitAnd(a, b) = b

\* The squares either player occupies.
Occupied(g) == merge(g.board, g.opponent_board)

\* C12 as stated: in every position the solver reaches from Game::default()
\* the forbidden grid covers both grids, the square just played included, and
\* the merge of with_move gives this whatever the mask of the tile is (the
\* empty mask and the mask of the tile played are tried); the solver never
\* moves to an occupied square.
C12_MergeAloneCoversOccupied ==
    /\ Covers(game.unavailable, Occupied(game))
    /\ last.op = "move" =>
          /\ \A mask \in {0, get_unavailable(last.tile, last.square)} :
                 Covers(merge_3(last.from.board, last.from.opponent_board, mask),
                        Occupied(game))
          /\ last.square \notin SquaresOf(Occupied(last.from))

\* C12, amended: in every position the solver reaches from Game::default()
\* the forbidden grid covers both grids, the square just played included; the
\* grids merged in with_move are those before the move, so the played square
\* is forbidden because the mask of the tile holds it, not by the merge; the
\* solver never moves to an occupied square.
C12_ForbiddenCoversOccupied ==
    /\ Covers(game.unavailable, Occupied(game))
    /\ last.op = "move" =>
          /\ last.square \in SquaresOf(get_unavailable(last.tile, last.square))
          /\ ~Covers(merge(last.from.board, last.from.opponent_board), Occupied(game))
          /\ last.square \notin SquaresOf(Occupied(last.from))

C12_Witness ==
    /\ last.op = "move"
    /\ last.from.board # 0
    /\ last.from.opponent_board # 0
    /\ last.square \in SquaresOf(game.unavailable)
    /\ ~player_must_pass(game)

\* C13: in every position the solver reaches from Game::default() the own
\* grid and the opponent grid have no set bit in common.
C13_GridsDisjoint ==
    /\ BitAnd(game.board, game.opponent_board) = 0
    /\ SquaresOf(game.board) \cap SquaresOf(game.opponent_board) = {}

C13_Witness ==
    /\ last.op = "move"
    /\ Cardinality(SquaresOf(game.board)) >= 4
    /\ Cardinality(SquaresOf(game.opponent_board)) >= 4
    /\ last.square \in SquaresOf(game.opponent_board)

\* The eight hand counters of a position.
Counters(g) == {g.hand[i] : i \in 1 .. 4} \cup {g.opponent_hand[i] : i \in 1 .. 4}

\* C14: every with_move(tile, square) of the solver is on a position whose
\* mover holds at least one `tile`, so each of the eight counters of every
\* position reached stays within 0..2 and the u8 subtraction never wraps.
C14_NoUnderflow ==
    /\ Counters(game) \subseteq 0 .. 2
    /\ last.op = "move" =>
          /\ last.from.hand[last.tile + 1] >= 1
          /\ game.opponent_hand[last.tile + 1] = last.from.hand[last.tile + 1] - 1

C14_Witness ==
    /\ last.op = "move"
    /\ last.from.hand[last.tile + 1] = 1
    /\ game.opponent_hand[last.tile + 1] = 0
    /\ ~is_empty(game.opponent_hand)

\* The call on top is about to count its position as a game (solver.rs 41-42).
AtLeaf == stack # <<>> /\ Top.pc = "enter" /\ is_over(Top.game)

\* The call on top was made on with_pass (solver.rs 47).
CalledOnPass == Len(stack) > 1 /\ stack[Len(stack) - 1].pc = "pass"

\* C15 as stated: whenever solve counts a position, the hand of the opponent
\* is empty as well as the hand of the mover.
C15_BothHandsEmpty ==
    AtLeaf => is_empty(Top.game.hand) /\ is_empty(Top.game.opponent_hand)

\* C15, amended: whenever solve counts a position, each of the four counters
\* of the mover is zero; the hand of the opponent need not be empty, and it
\* holds at least one tile whenever the position was reached by a pass.
C15_MoverHandEmpty ==
    AtLeaf =>
        /\ \A i \in 1 .. 4 : Top.game.hand[i] = 0
        /\ CalledOnPass =>
              \E i \in 1 .. 4 : Top.game.opponent_hand[i] > 0

C15_Witness ==
    /\ AtLeaf
    /\ CalledOnPass
    /\ root \in Endgames
    /\ TilesLeft(Top.game) >= 1

\* C16 as stated: every recursive call of solve, on with_move or on
\* with_pass, is on a position with exactly one tile less in the two hands
\* than the position of its caller.
C16_EveryCallOneTileLess ==
    \A n \in 2 .. Len(stack) :
        TilesLeft(stack[n].game) = TilesLeft(stack[n - 1].game) - 1

\* C16, amended: a recursive call on with_move is on a position with exactly
\* one tile less in the two hands than the position of its caller; a
\* recursive call on with_pass is on a position with as many.
C16_MoveOneTileLessPassSame ==
    \A n \in 2 .. Len(stack) :
        TilesLeft(stack[n].game) =
            TilesLeft(stack[n - 1].game) - (IF stack[n - 1].pc = "pass" THEN 0 ELSE 1)

C16_Witness ==
    /\ Len(stack) >= 4
    /\ \E n \in 1 .. Len(stack) - 1 : stack[n].pc = "pass"
    /\ \E n \in 1 .. Len(stack) - 1 : stack[n].pc = "loop"
    /\ TilesLeft(Top.game) < TilesLeft(root)

\* C17: the position the solver reaches by a pass is over or has an available
\* square, so the solver never passes twice in a row; for in every position
\* reached from Game::default() the occupied squares and the tiles left in the
\* two hands add up to sixteen, and a pass leaves only occupied squares
\* forbidden.
C17_NoPassAfterPass ==
    /\ Cardinality(SquaresOf(Occupied(game))) + TilesLeft(game) = 16
    /\ last.op = "pass" =>
          /\ ~is_over(last.from) /\ player_must_pass(last.from)
          /\ \/ is_over(game)
             \/ /\ ~player_must_pass(game)
                /\ \E square \in SQUARES : is_available(game, square)

C17_Witness ==
    /\ last.op = "pass"
    /\ ~is_over(game)
    /\ Cardinality(Open(game)) >= 2

\* C18 as stated: in solve started on Game::default() no call is nested more
\* than 8 calls below the outermost one.
C18_DepthAtMostEight ==
    root = Game_default => Len(stack) - 1 <= 8

\* C18, amended: in solve started on Game::default() the number of calls a
\* call is nested below the outermost one, added to the measure of its
\* position (two per tile left, one more where the mover must pass), never
\* exceeds the measure of Game::default(), which is 32; so no call is nested
\* more than 32 calls below the outermost one.
C18_DepthWithinMeasure ==
    /\ Rank(Game_default) = 32
    /\ (root = Game_default /\ stack # <<>>) =>
          /\ Len(stack) - 1 + Rank(Top.game) <= Rank(root)
          /\ Len(stack) - 1 <= 32

C18_Witness ==
    /\ root = Game_default
    /\ AtLeaf
    /\ Len(stack) - 1 > 16
    /\ \E n \in 1 .. Len(stack) - 1 : stack[n].pc = "pass"

\* The moves of legal play from a position: a tile the mover holds on a
\* square that is available.
Moves(g) == {m \in TILES \X SQUARES : has(g, m[1]) /\ is_available(g, m[2])}

\* The positions that are over among those legal play reaches from g.
RECURSIVE Terminals(_)
Terminals(g) ==
    IF is_over(g) THEN {g}
    ELSE IF player_must_pass(g) THEN Terminals(with_pass(g))
    ELSE UNION {Terminals(with_move(g, m[1], m[2])) : m \in Moves(g)}

\* The number of lines of legal play from g to a position that is over.
RECURSIVE Paths(_)
RECURSIVE PathsOver(_, _)
PathsOver(g, moves) ==
    IF moves = {} THEN 0
    ELSE LET m == CHOOSE x \in moves : TRUE
         IN  Paths(with_move(g, m[1], m[2])) + PathsOver(g, moves \ {m})

Paths(g) ==
    IF is_over(g) THEN 1
    ELSE IF player_must_pass(g) THEN Paths(with_pass(g))
    ELSE PathsOver(g, Moves(g))

\* The outermost call of solve has returned.
Solved == stack = <<>> /\ ret # NoStatus

\* C19 as stated: when solve returns, the counter is the number of distinct
\* positions that are over among those legal play reaches from the position
\* solve was called on: each was visited, and counted once.
C19_CountsEveryTerminalOnce ==
    Solved => games = Cardinality(Terminals(root))

\* C19, amended: every position solve counts is a position that is over and
\* that legal play reaches from the position solve was called on; when solve
\* returns, the counter is at least one and at most the number of lines of
\* legal play from that position to a position that is over.  (A position
\* that is over is missed where solve returns Win early, and counted once for
\* each line solve follows to it.)
C19_CountsFollowedLines ==
    /\ (ret # NoStatus /\ is_over(callee)) => callee \in Terminals(root)
    /\ Solved => games >= 1 /\ games <= Paths(root)

C19_Witness ==
    /\ Solved
    /\ ~cut
    /\ games > Cardinality(Terminals(root))
    /\ games < Paths(root)

\* The line of the first comment of test_solve (solver.rs 82-86).
WinLine == << <<Pusher, 10>>, PASS, <<Pusher, 15>>, PASS >>

\* C20: from the Win fixture the line `Pusher on 10, pass, Pusher on 15,
\* pass` is one the solver follows, it ends in a position that is over, and
\* there the player scores 2 and the opponent 1.
C20_WinFixtureEndsTwoOne ==
    LET end == Replay(FixtureOf(Pusher), WinLine) IN
    (root = FixtureOf(Pusher) /\ stack # <<>> /\ Top.game = end) =>
        /\ Legal(FixtureOf(Pusher), WinLine)
        /\ is_over(end)
        /\ get_score(end.board) = 2
        /\ get_score(end.opponent_board) = 1

\* The number of tiles in a hand.
HandSize(hand) == hand[1] + hand[2] + hand[3] + hand[4]

\* C21: in every position the solver reaches from Game::default(), for each
\* player the squares set in the player's grid and the tiles in the player's
\* hand add up to 8: a move sets a bit that was clear in the mover's grid and
\* removes exactly one tile from the mover's hand, and a pass changes no grid
\* and no hand.
C21_SquaresPlusTilesIsEight ==
    /\ Cardinality(SquaresOf(game.board)) + HandSize(game.hand) = 8
    /\ Cardinality(SquaresOf(game.opponent_board)) + HandSize(game.opponent_hand) = 8
    /\ last.op = "move" =>
          /\ last.square \notin SquaresOf(last.from.board)
          /\ SquaresOf(game.opponent_board) = SquaresOf(last.from.board) \cup {last.square}
          /\ HandSize(game.opponent_hand) = HandSize(last.from.hand) - 1
          /\ game.board = last.from.opponent_board
          /\ game.hand = last.from.opponent_hand
    /\ last.op = "pass" =>
          /\ game.board = last.from.opponent_board
          /\ game.hand = last.from.opponent_hand
          /\ game.opponent_board = last.from.board
          /\ game.opponent_hand = last.from.hand

C21_Witness ==
    /\ last.op = "pass"
    /\ HandSize(game.hand) # HandSize(game.opponent_hand)
    /\ Cardinality(SquaresOf(game.board)) + HandSize(game.hand) = 8
    /\ Cardinality(SquaresOf(game.opponent_board)) >= 5

\* C22: for every position p, get_status of p.with_pass() is the negation of
\* get_status of p.
C22_StatusNegatedBySwap ==
    out.op = "swap_status" => out.val[2] = not(out.val[1])

C22_Witness ==
    /\ out.op = "swap_status"
    /\ out.val = <<Win, Loss>>
    /\ game.board # game.opponent_board
    /\ game.hand # game.opponent_hand
    /\ ~is_over(game)

====
